---- MODULE Spec2Model ----
(***************************************************************************)
(* Model of the OpenAI-compatible endpoint of the Dify plugin              *)
(* (extensions/openai_compatible/endpoints/openai_compatible.py).          *)
(*                                                                         *)
(* Strings are sequences of tokens.  The tokens used form a prefix-free    *)
(* set ("x", "y", "||", "user:", "system:", "first_user:", "assistant:",   *)
(* "u1", "u2", ...), so two token sequences are equal exactly when the     *)
(* Python strings they stand for are equal.  The empty string is << >>.    *)
(* Session handles, statuses and tags are plain TLA+ strings; the empty    *)
(* handle is "".                                                           *)
(***************************************************************************)
EXTENDS Integers, Sequences, FiniteSets, TLC

\* ------------------------------------------------------------------ bounds
MaxMsgs == 3
MaxEvents == 2
MaxKeyMsgs == 2
MaxArrivals == 3

\* ------------------------------------------------------- program constants
KeyMaxIndex == 3
ContentPrefix == 50

\* ------------------------------------------------------------ input domains
Reqs == {1, 2}
Roles == {"system", "user", "assistant"}
Contents == {<< >>, <<"x">>}
Users == {<<"u1">>, <<"u2">>}
\* request messages: every user content, one system and one assistant content
Message ==
  {m \in [role : Roles, content : Contents] : m.role # "user" => m.content = <<"x">>}
AppIds == {"app", "", "nonstring"}
MemoryModes == {"last_user_message", "full_history"}
ExcKinds == {"ValueError", "RuntimeError"}

RECURSIVE SeqsUpTo(_, _)
SeqsUpTo(S, n) ==
  IF n = 0 THEN {<< >>}
  ELSE LET shorter == SeqsUpTo(S, n - 1)
       IN  shorter \cup {Append(s, e) : s \in {t \in shorter : Len(t) = n - 1}, e \in S}

MessageLists == SeqsUpTo(Message, MaxMsgs)

Min(a, b) == IF a < b THEN a ELSE b

\* Python truthiness of a str / bytes / handle
Truthy(s) == s # << >>

\* ------------------------------------------------- ConversationInfo (12-17)
ConversationInfo(cid, created, uid) ==
  [conversation_id |-> cid, created_at |-> created, user_id |-> uid]

\* model_dump_json().encode("utf-8"): the bytes written to the store
model_dump_json(info) ==
  [kind |-> "json", conversation_id |-> info.conversation_id,
   created_at |-> info.created_at, user_id |-> info.user_id]

\* bytes that are not a ConversationInfo document, and the empty bytes b""
GarbageBytes == [kind |-> "garbage", conversation_id |-> "", created_at |-> 0, user_id |-> << >>]
EmptyBytes == [kind |-> "empty", conversation_id |-> "", created_at |-> 0, user_id |-> << >>]

\* model_validate_json / parse_raw succeed exactly on a dumped document
Parses(bytes) == bytes.kind = "json"
model_validate_json(bytes) ==
  ConversationInfo(bytes.conversation_id, bytes.created_at, bytes.user_id)

\* ------------------------------------- _generate_conversation_key (132-173)
HasRole(messages, role) == \E i \in 1..Len(messages) : messages[i].role = role

FirstIndex(messages, role) ==
  CHOOSE i \in 1..Len(messages) :
    /\ messages[i].role = role
    /\ \A j \in 1..(i - 1) : messages[j].role # role

RoleColon(role) ==
  CASE role = "system" -> "system:"
    [] role = "user" -> "user:"
    [] role = "assistant" -> "assistant:"

RECURSIVE Join(_)
Join(features) ==
  IF Len(features) = 0 THEN << >>
  ELSE IF Len(features) = 1 THEN features[1]
  ELSE features[1] \o <<"||">> \o Join(Tail(features))

SystemFeature(messages) ==
  IF HasRole(messages, "system") /\ Truthy(messages[FirstIndex(messages, "system")].content)
  THEN << <<"system:">> \o messages[FirstIndex(messages, "system")].content >>
  ELSE << >>

\* variant: the feature is taken from the last user message
FirstUserFeature_Last(messages) ==
  IF HasRole(messages, "user")
     /\ Truthy(messages[CHOOSE k \in 1..Len(messages) :
                          /\ messages[k].role = "user"
                          /\ \A j \in (k + 1)..Len(messages) : messages[j].role # "user"].content)
  THEN << <<"first_user:">>
            \o messages[CHOOSE k \in 1..Len(messages) :
                          /\ messages[k].role = "user"
                          /\ \A j \in (k + 1)..Len(messages) : messages[j].role # "user"].content >>
  ELSE << >>

FirstUserFeature(messages) ==
  IF HasRole(messages, "user") /\ Truthy(messages[FirstIndex(messages, "user")].content)
  THEN << <<"first_user:">> \o messages[FirstIndex(messages, "user")].content >>
  ELSE << >>

FallbackFeature(messages) ==
  [i \in 1..Min(Len(messages), KeyMaxIndex + 1) |->
     <<RoleColon(messages[i].role)>>
       \o SubSeq(messages[i].content, 1, Min(ContentPrefix, Len(messages[i].content)))]

conversation_feature(messages) ==
  LET primary == SystemFeature(messages) \o FirstUserFeature(messages)
  IN  IF Len(primary) < 1 THEN FallbackFeature(messages) ELSE primary

feature_str(messages, user) ==
  Join(conversation_feature(messages)) \o <<"||", "user:">> \o user

\* hashlib.sha256(...).hexdigest(), taken as injective on the feature string
sha256(s) == <<"sha256">> \o s

generate_conversation_key(messages, user) == sha256(feature_str(messages, user))

\* ------------------------------------------------------- backend (65, 106)
Tags == {"message", "agent_message", "message_end", "message_file", "ping"}
MsgIds == {"m1", "m2"}
NoFault == -1

Event(tag, cid, mid) == [event |-> tag, conversation_id |-> cid, message_id |-> mid]

\* A streaming invocation: the events the backend will yield and the pull at
\* which the generator raises (NoFault: it ends normally after the events).
\* Only the first event's conversation_id is ever read (78), so one handle per
\* stream is carried by all its events.
StreamsOf(tags, mids, cids, n) ==
  UNION {
    { [events |-> [i \in 1..Len(ks) |-> Event(ks[i][1], c, ks[i][2])],
       faultAt |-> f, pos |-> 0, dead |-> FALSE]
        : f \in {NoFault} \cup (0..Len(ks)), c \in cids }
      : ks \in SeqsUpTo(tags \X mids, n) }

NoStream == [events |-> << >>, faultAt |-> NoFault, pos |-> 0, dead |-> TRUE]

\* next(response): raise, StopIteration, or the next event
PullRaises(g) == ~g.dead /\ g.faultAt = g.pos
PullEnds(g) == g.dead \/ (g.faultAt # g.pos /\ g.pos = Len(g.events))
PullYields(g) == ~PullRaises(g) /\ ~PullEnds(g)
Pulled(g) == [g EXCEPT !.pos = g.pos + 1]
Raised(g) == [g EXCEPT !.dead = TRUE]

\* the handle the backend issues to a new conversation started by request r
NewHandle(r) == IF r = 1 THEN "h1" ELSE "h2"
StoredHandle == "h0"

\* conversation ids a backend answer may carry for request r
BackendCids(r, cid) == IF cid = "" THEN {"", NewHandle(r)} ELSE {cid, NewHandle(r)}

\* ------------------------------ _handle_chat_stream_message (309-375)
Chunk(obj, id, delta, fin, usage) ==
  [object |-> obj, id |-> id, delta |-> delta, finish_reason |-> fin, usage |-> usage]

DoneChunk == Chunk("[DONE]", << >>, << >>, "absent", "absent")

\* variant: an event with any other tag is passed on as a message chunk
Translate_AnyTag(data, message_id) ==
  CASE data.event = "message_end" ->
         [yields |-> TRUE,
          chunk |-> Chunk("chat.completion.chunk", <<"chatcmpl-", data.message_id>>,
                          << >>, "stop", "usage"),
          message_id |-> message_id]
    [] data.event = "message_file" ->
         [yields |-> TRUE,
          chunk |-> Chunk("chat.completion.chunk", <<"chatcmpl-">> \o message_id,
                          <<"assistant", "[id](url)">>, "absent", "absent"),
          message_id |-> message_id]
    [] OTHER ->
         [yields |-> TRUE,
          chunk |-> Chunk("chat.completion.chunk", <<"chatcmpl-", data.message_id>>,
                          <<"assistant", "answer">>, "null", "absent"),
          message_id |-> <<"chatcmpl-", data.message_id>>]

\* one iteration of the for loop (316-373) on event data with the local
\* message_id: the chunk yielded (if any) and the new message_id
Translate(data, message_id) ==
  CASE data.event \in {"agent_message", "message"} ->
         [yields |-> TRUE,
          chunk |-> Chunk("chat.completion.chunk", <<"chatcmpl-", data.message_id>>,
                          <<"assistant", "answer">>, "null", "absent"),
          message_id |-> <<"chatcmpl-", data.message_id>>]
    [] data.event = "message_end" ->
         [yields |-> TRUE,
          chunk |-> Chunk("chat.completion.chunk", <<"chatcmpl-", data.message_id>>,
                          << >>, "stop", "usage"),
          message_id |-> message_id]
    [] data.event = "message_file" ->
         [yields |-> TRUE,
          chunk |-> Chunk("chat.completion.chunk", <<"chatcmpl-">> \o message_id,
                          <<"assistant", "[id](url)">>, "absent", "absent"),
          message_id |-> message_id]
    [] OTHER ->
         [yields |-> FALSE, chunk |-> DoneChunk, message_id |-> message_id]

\* the whole output of _handle_chat_stream_message for a list of events
RECURSIVE HandleFrom(_, _, _)
HandleFrom(events, i, message_id) ==
  IF i > Len(events) THEN <<DoneChunk>>
  ELSE LET t == Translate(events[i], message_id)
       IN  (IF t.yields THEN <<t.chunk>> ELSE << >>)
             \o HandleFrom(events, i + 1, t.message_id)

handle_chat_stream_message(events) == HandleFrom(events, 1, << >>)

\* ------------------------------ _handle_chat_blocking_message (377-404)
BlockingBody(response) ==
  Chunk("chat.completion", <<"chatcmpl-", response.id>>,
        <<"assistant", "answer">>, "stop", "usage")

\* ------------------------------------------------ _get_memory (237-307)
NoneBytes == [kind |-> "none", conversation_id |-> "", created_at |-> 0, user_id |-> << >>]

LastUserContent(messages) ==
  LET i == CHOOSE k \in 1..Len(messages) :
             /\ messages[k].role = "user"
             /\ \A j \in (k + 1)..Len(messages) : messages[j].role # "user"
  IN  messages[i].content

\* user_message after the reversed scan (249-253)
user_message(messages) ==
  IF HasRole(messages, "user") THEN LastUserContent(messages) ELSE << >>

\* variant: any history of more than one message counts as multi-turn
has_assistant_message_AnyHistory(messages) ==
  HasRole(messages, "assistant") \/ Len(messages) > 1

has_assistant_message(messages) == HasRole(messages, "assistant")

\* =========================================================== program state
VARIABLES
  store,            \* session.storage: key -> bytes
  clock,            \* time.time()
  pc,               \* where each request is in _invoke / generator()
  req,              \* settings and request body of each request
  conversation_id,  \* _invoke local (54)
  query,            \* _invoke local (54)
  response,         \* the backend's answer: generator (65) or dict (106)
  first_chunk,      \* generator() local (76)
  source,           \* what _handle_chat_stream_message iterates over
  message_id,       \* _handle_chat_stream_message local (315)
  out,              \* what the client has received: chunks or the body
  status,           \* status of the Response returned by _invoke
  calls,            \* history: store get / store set / backend invoke counts
  faults,           \* history: which faults this request met
  lastPersist,      \* history: the last successful _backtracking_conversation_id
  probe             \* two direct calls of _generate_conversation_key

vars == <<store, clock, pc, req, conversation_id, query, response, first_chunk,
          source, message_id, out, status, calls, faults, lastPersist, probe>>

NoReq == [app_id |-> "", memory_mode |-> "", messages |-> << >>, stream |-> FALSE,
          user |-> << >>]
NoEvent == Event("", "", "")
NoSource == [kind |-> "none", items |-> << >>, i |-> 0]
NoCalls == [get |-> 0, set |-> 0, invoke |-> 0, invoked_with |-> ""]
NoFaults == [get |-> FALSE, set |-> FALSE, backend |-> FALSE, rejected |-> ""]
NoPersist == [system |-> << >>, first_user |-> << >>, user |-> << >>, handle |-> "",
              key |-> << >>]

\* the JSON bodies a client may send (37-39)
Bodies == [messages : MessageLists, stream : BOOLEAN, user : Users]

\* what the store may hold before the first request: nothing, or under the key
\* of the conversation [user: x] of u1 a record, garbage or empty bytes
SeedKey == generate_conversation_key(<<[role |-> "user", content |-> <<"x">>]>>, <<"u1">>)
EmptyStore == [k \in {} |-> NoneBytes]
InitStores ==
  {EmptyStore} \cup
  { [k \in {SeedKey} |-> b]
      : b \in {GarbageBytes,
                model_dump_json(ConversationInfo(StoredHandle, 0, <<"u1">>))} }

\* arguments and results of two calls of _generate_conversation_key
NoKey == << >>
NoProbe == [a |-> [messages |-> << >>, user |-> << >>],
            b |-> [messages |-> << >>, user |-> << >>],
            key_a |-> NoKey, key_b |-> NoKey]

Init ==
  /\ probe = NoProbe
  /\ store \in InitStores
  /\ clock = 1
  /\ pc = [r \in Reqs |-> "idle"]
  /\ req = [r \in Reqs |-> NoReq]
  /\ conversation_id = [r \in Reqs |-> ""]
  /\ query = [r \in Reqs |-> << >>]
  /\ response = [r \in Reqs |-> NoStream]
  /\ first_chunk = [r \in Reqs |-> NoEvent]
  /\ source = [r \in Reqs |-> NoSource]
  /\ message_id = [r \in Reqs |-> << >>]
  /\ out = [r \in Reqs |-> << >>]
  /\ status = [r \in Reqs |-> "pending"]
  /\ calls = [r \in Reqs |-> NoCalls]
  /\ faults = [r \in Reqs |-> NoFaults]
  /\ lastPersist = NoPersist

\* ------------------------------------------ _safe_storage_get (175-187)
\* a missing key (KeyError) and any other fault both give None
safe_storage_get(key, fault) ==
  IF fault \/ key \notin DOMAIN store THEN NoneBytes ELSE store[key]

\* ------------------------------------------------ _get_memory (237-307)
\* variant: a continuing conversation whose record cannot be read is an error
get_memory_RaiseOnMiss(memory_mode, messages, user, fault) ==
  IF memory_mode # "last_user_message"
  THEN [raises |-> TRUE, conversation_id |-> "", query |-> << >>, reads |-> FALSE]
  ELSE IF ~Truthy(user_message(messages))
  THEN [raises |-> TRUE, conversation_id |-> "", query |-> << >>, reads |-> FALSE]
  ELSE IF has_assistant_message(messages)
  THEN LET stored_data ==
             safe_storage_get(generate_conversation_key(messages, user), fault)
       IN  IF stored_data.kind \notin {"none", "empty"} /\ Parses(stored_data)
           THEN [raises |-> FALSE,
                 conversation_id |-> model_validate_json(stored_data).conversation_id,
                 query |-> user_message(messages), reads |-> TRUE]
           ELSE [raises |-> TRUE, conversation_id |-> "", query |-> << >>,
                 reads |-> TRUE]
  ELSE [raises |-> FALSE, conversation_id |-> "", query |-> user_message(messages),
        reads |-> FALSE]

\* variant: the record is looked up before the mode and the query are checked
get_memory_LookupFirst(memory_mode, messages, user, fault) ==
  LET stored_data ==
        IF has_assistant_message(messages)
        THEN safe_storage_get(generate_conversation_key(messages, user), fault)
        ELSE NoneBytes
      reads == has_assistant_message(messages)
  IN  IF memory_mode # "last_user_message" \/ ~Truthy(user_message(messages))
      THEN [raises |-> TRUE, conversation_id |-> "", query |-> << >>, reads |-> reads]
      ELSE IF stored_data.kind \notin {"none", "empty"} /\ Parses(stored_data)
      THEN [raises |-> FALSE,
            conversation_id |-> model_validate_json(stored_data).conversation_id,
            query |-> user_message(messages), reads |-> reads]
      ELSE [raises |-> FALSE, conversation_id |-> "", query |-> user_message(messages),
            reads |-> reads]

\* fault: whether session.storage.get fails should it be called.  The result
\* says whether ValueError is raised, what is returned, and whether
\* _safe_storage_get was called (275)
get_memory(memory_mode, messages, user, fault) ==
  IF memory_mode # "last_user_message"
  THEN [raises |-> TRUE, conversation_id |-> "", query |-> << >>, reads |-> FALSE]
  ELSE IF ~Truthy(user_message(messages))
  THEN [raises |-> TRUE, conversation_id |-> "", query |-> << >>, reads |-> FALSE]
  ELSE IF has_assistant_message(messages)
  THEN LET stored_data ==
             safe_storage_get(generate_conversation_key(messages, user), fault)
       IN  IF stored_data.kind \notin {"none", "empty"} /\ Parses(stored_data)
           THEN [raises |-> FALSE,
                 conversation_id |-> model_validate_json(stored_data).conversation_id,
                 query |-> user_message(messages), reads |-> TRUE]
           ELSE [raises |-> FALSE, conversation_id |-> "",
                 query |-> user_message(messages), reads |-> TRUE]
  ELSE [raises |-> FALSE, conversation_id |-> "", query |-> user_message(messages),
        reads |-> FALSE]

\* ------------------------------------------ _safe_storage_set (189-198)
\* the store after the call: unchanged when storage.set raised
\* variant: a key that is already there keeps its value
safe_storage_set_KeepFirst(key, value, fault) ==
  IF fault \/ key \in DOMAIN store THEN store
  ELSE [k \in DOMAIN store \cup {key} |-> IF k = key THEN value ELSE store[k]]

safe_storage_set(key, value, fault) ==
  IF fault THEN store
  ELSE [k \in DOMAIN store \cup {key} |-> IF k = key THEN value ELSE store[k]]

\* ------------------------------ _backtracking_conversation_id (200-235)
\* variant: the record is keyed by the user alone
backtracking_conversation_id_UserKey(messages, user, new_conversation_id, fault) ==
  IF new_conversation_id = "" THEN store
  ELSE safe_storage_set(generate_conversation_key(<< >>, user),
                        model_dump_json(ConversationInfo(new_conversation_id, clock, user)),
                        fault)

\* the store after recording new_conversation_id for (messages, user)
backtracking_conversation_id(messages, user, new_conversation_id, fault) ==
  IF new_conversation_id = "" THEN store
  ELSE safe_storage_set(generate_conversation_key(messages, user),
                        model_dump_json(ConversationInfo(new_conversation_id, clock, user)),
                        fault)

\* history: what a successful persist of (messages, user, handle) leaves behind
FirstContent(messages, role) ==
  IF HasRole(messages, role)
  THEN <<"some">> \o messages[FirstIndex(messages, role)].content
  ELSE <<"none">>

PersistRecord(messages, user, handle) ==
  [system |-> FirstContent(messages, "system"),
   first_user |-> FirstContent(messages, "user"),
   user |-> user, handle |-> handle,
   key |-> generate_conversation_key(messages, user)]

\* ================================================================ _invoke
Finished(r) == pc[r] \in {"done", "aborted"}

\* a request arrives (22) under some settings (26, 32); requests are served
\* one after the other
Receive(r) ==
  /\ pc[r] = "idle"
  /\ \A q \in Reqs \ {r} : pc[q] \in {"idle", "closed"} /\ (q < r => pc[q] = "closed")
  /\ \E a \in AppIds, m \in MemoryModes :
       req' = [req EXCEPT ![r] = [NoReq EXCEPT !.app_id = a, !.memory_mode = m]]
  /\ pc' = [pc EXCEPT ![r] = "entry"]
  /\ clock' = clock + 1
  /\ UNCHANGED <<probe, store, conversation_id, query, response, first_chunk, source,
                 message_id, out, status, calls, faults, lastPersist>>

\* 26-30: the ValueError is raised outside the try block; @logger.catch (21)
\* logs it and _invoke returns None instead of a Response
RejectConfig(r) ==
  /\ pc[r] = "entry"
  /\ req[r].app_id # "app"
  /\ pc' = [pc EXCEPT ![r] = "done"]
  /\ status' = [status EXCEPT ![r] = "None"]
  /\ faults' = [faults EXCEPT ![r].rejected = "config"]
  /\ UNCHANGED <<probe, store, clock, req, conversation_id, query, response, first_chunk,
                 source, message_id, out, calls, lastPersist>>

\* 34: r.get_json() raises an HTTPException, which is not a ValueError (128-130)
ParseFail(r) ==
  /\ pc[r] = "entry"
  /\ req[r].app_id = "app"
  /\ pc' = [pc EXCEPT ![r] = "done"]
  /\ status' = [status EXCEPT ![r] = "500"]
  /\ faults' = [faults EXCEPT ![r].rejected = "body"]
  /\ UNCHANGED <<probe, store, clock, req, conversation_id, query, response, first_chunk,
                 source, message_id, out, calls, lastPersist>>

\* 34-39: the body is parsed into messages, stream and user
ParseBody(r, bodies) ==
  /\ pc[r] = "entry"
  /\ req[r].app_id = "app"
  /\ \E b \in bodies :
       req' = [req EXCEPT ![r].messages = b.messages, ![r].stream = b.stream,
                          ![r].user = b.user]
  /\ pc' = [pc EXCEPT ![r] = "parsed"]
  /\ UNCHANGED <<probe, store, clock, conversation_id, query, response, first_chunk, source,
                 message_id, out, status, calls, faults, lastPersist>>

\* 54 with _get_memory raising ValueError (257, 305), mapped to 400 (125-127)
ResolveReject(r) ==
  /\ pc[r] = "parsed"
  /\ \E fault \in BOOLEAN :
       LET m == get_memory(req[r].memory_mode, req[r].messages, req[r].user, fault)
       IN  /\ fault => m.reads
           /\ m.raises
           /\ calls' = [calls EXCEPT ![r].get = IF m.reads THEN @ + 1 ELSE @]
           /\ faults' = [faults EXCEPT ![r].get = fault, ![r].rejected = "memory"]
  /\ pc' = [pc EXCEPT ![r] = "done"]
  /\ status' = [status EXCEPT ![r] = "400"]
  /\ UNCHANGED <<probe, store, clock, req, conversation_id, query, response, first_chunk,
                 source, message_id, out, lastPersist>>

\* variant: a record that does not parse is removed from the store when read
Resolve_DropCorrupt(r) ==
  /\ pc[r] = "parsed"
  /\ \E fault \in BOOLEAN :
       LET m == get_memory(req[r].memory_mode, req[r].messages, req[r].user, fault)
           key == generate_conversation_key(req[r].messages, req[r].user)
       IN  /\ fault => m.reads
           /\ ~m.raises
           /\ conversation_id' = [conversation_id EXCEPT ![r] = m.conversation_id]
           /\ query' = [query EXCEPT ![r] = m.query]
           /\ calls' = [calls EXCEPT ![r].get = IF m.reads THEN @ + 1 ELSE @]
           /\ faults' = [faults EXCEPT ![r].get = fault]
           /\ store' = IF m.reads /\ ~fault /\ key \in DOMAIN store /\ ~Parses(store[key])
                       THEN [k \in DOMAIN store \ {key} |-> store[k]]
                       ELSE store
  /\ pc' = [pc EXCEPT ![r] = IF req[r].stream THEN "respond_stream" ELSE "invoke_blocking"]
  /\ UNCHANGED <<probe, clock, req, response, first_chunk,
                 source, message_id, out, status, lastPersist>>

\* 54 with _get_memory returning (conversation_id, query); the store get of
\* 275 may fail
Resolve(r) ==
  /\ pc[r] = "parsed"
  /\ \E fault \in BOOLEAN :
       LET m == get_memory(req[r].memory_mode, req[r].messages, req[r].user, fault)
       IN  /\ fault => m.reads
           /\ ~m.raises
           /\ conversation_id' = [conversation_id EXCEPT ![r] = m.conversation_id]
           /\ query' = [query EXCEPT ![r] = m.query]
           /\ calls' = [calls EXCEPT ![r].get = IF m.reads THEN @ + 1 ELSE @]
           /\ faults' = [faults EXCEPT ![r].get = fault]
  /\ pc' = [pc EXCEPT ![r] = IF req[r].stream THEN "respond_stream" ELSE "invoke_blocking"]
  /\ UNCHANGED <<probe, store, clock, req, response, first_chunk,
                 source, message_id, out, status, lastPersist>>

\* ------------------------------------------------- blocking branch (104-124)
\* 106-112 returning a response dict
InvokeBlocking(r) ==
  /\ pc[r] = "invoke_blocking"
  /\ \E c \in BackendCids(r, conversation_id[r]) :
       /\ response' = [response EXCEPT ![r] =
                         [NoStream EXCEPT !.events = <<Event("blocking", c, "m1")>>]]
       /\ pc' = [pc EXCEPT ![r] =
                   IF conversation_id[r] = "" /\ c # ""
                   THEN "persist_blocking" ELSE "return_blocking"]
  /\ calls' = [calls EXCEPT ![r].invoke = @ + 1, ![r].invoked_with = conversation_id[r]]
  /\ UNCHANGED <<probe, store, clock, req, conversation_id, query, first_chunk, source,
                 message_id, out, status, faults, lastPersist>>

\* 106-112 raising: a ValueError goes to 125-127, anything else to 128-130
InvokeBlockingRaise(r) ==
  /\ pc[r] = "invoke_blocking"
  /\ \E e \in ExcKinds :
       status' = [status EXCEPT ![r] = IF e = "ValueError" THEN "400" ELSE "500"]
  /\ pc' = [pc EXCEPT ![r] = "done"]
  /\ calls' = [calls EXCEPT ![r].invoke = @ + 1, ![r].invoked_with = conversation_id[r]]
  /\ faults' = [faults EXCEPT ![r].backend = TRUE]
  /\ UNCHANGED <<probe, store, clock, req, conversation_id, query, response, first_chunk,
                 source, message_id, out, lastPersist>>

\* 115-118
PersistBlocking(r) ==
  /\ pc[r] = "persist_blocking"
  /\ \E fault \in BOOLEAN :
       LET new_conversation_id == response[r].events[1].conversation_id
       IN  /\ store' = backtracking_conversation_id(
                          req[r].messages, req[r].user, new_conversation_id, fault)
           /\ faults' = [faults EXCEPT ![r].set = fault]
           /\ lastPersist' =
                 IF fault THEN lastPersist
                 ELSE PersistRecord(req[r].messages, req[r].user, new_conversation_id)
  /\ calls' = [calls EXCEPT ![r].set = @ + 1]
  /\ pc' = [pc EXCEPT ![r] = "return_blocking"]
  /\ UNCHANGED <<probe, clock, req, conversation_id, query, response, first_chunk, source,
                 message_id, out, status>>

\* 120-124
ReturnBlocking(r) ==
  /\ pc[r] = "return_blocking"
  /\ out' = [out EXCEPT ![r] = <<BlockingBody([id |-> response[r].events[1].message_id])>>]
  /\ status' = [status EXCEPT ![r] = "200"]
  /\ pc' = [pc EXCEPT ![r] = "done"]
  /\ UNCHANGED <<probe, store, clock, req, conversation_id, query, response, first_chunk,
                 source, message_id, calls, faults, lastPersist>>

\* ------------------------------------------------ streaming branch (59-103)
\* 98-103: the Response is built with status 200 around the generator, which
\* has not run yet
ReturnStream(r) ==
  /\ pc[r] = "respond_stream"
  /\ status' = [status EXCEPT ![r] = "200"]
  /\ pc' = [pc EXCEPT ![r] = "gen_invoke"]
  /\ UNCHANGED <<probe, store, clock, req, conversation_id, query, response, first_chunk,
                 source, message_id, out, calls, faults, lastPersist>>

\* variant: the first event is peeked whatever handle was resolved
GenInvoke_AlwaysPeek(r, streams) ==
  /\ pc[r] = "gen_invoke"
  /\ \E g \in streams : response' = [response EXCEPT ![r] = g]
  /\ calls' = [calls EXCEPT ![r].invoke = @ + 1, ![r].invoked_with = conversation_id[r]]
  /\ pc' = [pc EXCEPT ![r] = "peek"]
  /\ UNCHANGED <<probe, source, store, clock, req, conversation_id, query, first_chunk,
                 message_id, out, status, faults, lastPersist>>

\* 65-71 returning the backend's generator; 74 and 95-96 choose the path
GenInvoke(r, streams) ==
  /\ pc[r] = "gen_invoke"
  /\ \E g \in streams : response' = [response EXCEPT ![r] = g]
  /\ calls' = [calls EXCEPT ![r].invoke = @ + 1, ![r].invoked_with = conversation_id[r]]
  /\ IF conversation_id[r] = ""
     THEN pc' = [pc EXCEPT ![r] = "peek"] /\ UNCHANGED source
     ELSE /\ pc' = [pc EXCEPT ![r] = "loop"]
          /\ source' = [source EXCEPT ![r] = [kind |-> "plain", items |-> << >>, i |-> 0]]
  /\ UNCHANGED <<probe, store, clock, req, conversation_id, query, first_chunk, message_id,
                 out, status, faults, lastPersist>>

\* 65-71 raising: the exception leaves generator() while the transport is
\* iterating the body of the 200 response
GenInvokeRaise(r) ==
  /\ pc[r] = "gen_invoke"
  /\ calls' = [calls EXCEPT ![r].invoke = @ + 1, ![r].invoked_with = conversation_id[r]]
  /\ faults' = [faults EXCEPT ![r].backend = TRUE]
  /\ pc' = [pc EXCEPT ![r] = "aborted"]
  /\ UNCHANGED <<probe, store, clock, req, conversation_id, query, response, first_chunk,
                 source, message_id, out, status, lastPersist>>

\* 76-82: next(response, None) gives an event
PeekEvent(r) ==
  /\ pc[r] = "peek"
  /\ PullYields(response[r])
  /\ first_chunk' = [first_chunk EXCEPT ![r] = response[r].events[response[r].pos + 1]]
  /\ response' = [response EXCEPT ![r] = Pulled(@)]
  /\ pc' = [pc EXCEPT ![r] =
              IF response[r].events[response[r].pos + 1].conversation_id # ""
              THEN "persist_stream" ELSE "drain"]
  /\ UNCHANGED <<probe, store, clock, req, conversation_id, query, source, message_id, out,
                 status, calls, faults, lastPersist>>

\* 76, 89-91: the stream is empty, first_chunk is None
PeekNone(r) ==
  /\ pc[r] = "peek"
  /\ PullEnds(response[r])
  /\ source' = [source EXCEPT ![r] = [kind |-> "try", items |-> << >>, i |-> 0]]
  /\ pc' = [pc EXCEPT ![r] = "loop"]
  /\ UNCHANGED <<probe, store, clock, req, conversation_id, query, response, first_chunk,
                 message_id, out, status, calls, faults, lastPersist>>

\* variant: after a failed peek the backend is invoked once more
PeekRaise_Retry(r) ==
  /\ pc[r] = "peek"
  /\ PullRaises(response[r])
  /\ response' = [response EXCEPT ![r] = Raised(@)]
  /\ faults' = [faults EXCEPT ![r].backend = TRUE]
  /\ calls' = [calls EXCEPT ![r].invoke = @ + 1]
  /\ source' = [source EXCEPT ![r] = [kind |-> "except", items |-> << >>, i |-> 0]]
  /\ pc' = [pc EXCEPT ![r] = "loop"]
  /\ UNCHANGED <<probe, store, clock, req, conversation_id, query, first_chunk, message_id,
                 out, status, lastPersist>>

\* 76 raising, caught at 92-94: the (now finished) generator is handled
PeekRaise(r) ==
  /\ pc[r] = "peek"
  /\ PullRaises(response[r])
  /\ response' = [response EXCEPT ![r] = Raised(@)]
  /\ faults' = [faults EXCEPT ![r].backend = TRUE]
  /\ source' = [source EXCEPT ![r] = [kind |-> "except", items |-> << >>, i |-> 0]]
  /\ pc' = [pc EXCEPT ![r] = "loop"]
  /\ UNCHANGED <<probe, store, clock, req, conversation_id, query, first_chunk, message_id,
                 out, status, calls, lastPersist>>

\* 82-85
PersistStream(r) ==
  /\ pc[r] = "persist_stream"
  /\ \E fault \in BOOLEAN :
       LET new_conversation_id == first_chunk[r].conversation_id
       IN  /\ store' = backtracking_conversation_id(
                          req[r].messages, req[r].user, new_conversation_id, fault)
           /\ faults' = [faults EXCEPT ![r].set = fault]
           /\ lastPersist' =
                 IF fault THEN lastPersist
                 ELSE PersistRecord(req[r].messages, req[r].user, new_conversation_id)
  /\ calls' = [calls EXCEPT ![r].set = @ + 1]
  /\ pc' = [pc EXCEPT ![r] = "drain"]
  /\ UNCHANGED <<probe, clock, req, conversation_id, query, response, first_chunk, source,
                 message_id, out, status>>

\* does building [first_chunk, *response] (87) meet the backend's fault
DrainRaises(g) == g.faultAt # NoFault /\ g.faultAt >= g.pos /\ ~g.dead

\* 86-88: the list [first_chunk, *response] is built, which pulls the rest of
\* the stream, and handed to _handle_chat_stream_message
Drain(r) ==
  /\ pc[r] = "drain"
  /\ ~DrainRaises(response[r])
  /\ source' = [source EXCEPT ![r] =
       [kind |-> "list",
        items |-> <<first_chunk[r]>>
                    \o SubSeq(response[r].events, response[r].pos + 1,
                               Len(response[r].events)),
        i |-> 0]]
  /\ response' = [response EXCEPT ![r].pos = Len(response[r].events)]
  /\ pc' = [pc EXCEPT ![r] = "loop"]
  /\ UNCHANGED <<probe, store, clock, req, conversation_id, query, first_chunk, message_id,
                 out, status, calls, faults, lastPersist>>

\* 87 raising while the list is built, caught at 92-94
DrainRaise(r) ==
  /\ pc[r] = "drain"
  /\ DrainRaises(response[r])
  /\ response' = [response EXCEPT ![r] = Raised([@ EXCEPT !.pos = response[r].faultAt])]
  /\ faults' = [faults EXCEPT ![r].backend = TRUE]
  /\ source' = [source EXCEPT ![r] = [kind |-> "except", items |-> << >>, i |-> 0]]
  /\ pc' = [pc EXCEPT ![r] = "loop"]
  /\ UNCHANGED <<probe, store, clock, req, conversation_id, query, first_chunk, message_id,
                 out, status, calls, lastPersist>>

\* --------------------------- _handle_chat_stream_message running (315-375)
\* the iterable handed over: the list of 87, or the live generator (91, 94, 96)
Live(r) == source[r].kind # "list"
SourceEnds(r) ==
  IF Live(r) THEN PullEnds(response[r]) ELSE source[r].i = Len(source[r].items)
SourceRaises(r) == Live(r) /\ PullRaises(response[r])
SourceNext(r) ==
  IF Live(r) THEN response[r].events[response[r].pos + 1]
  ELSE source[r].items[source[r].i + 1]

\* 316-373: one event is taken and its chunk, if any, is yielded
HandleEvent(r) ==
  /\ pc[r] = "loop"
  /\ ~SourceEnds(r) /\ ~SourceRaises(r)
  /\ LET t == Translate(SourceNext(r), message_id[r])
     IN  /\ out' = [out EXCEPT ![r] = IF t.yields THEN Append(@, t.chunk) ELSE @]
         /\ message_id' = [message_id EXCEPT ![r] = t.message_id]
  /\ IF Live(r)
     THEN response' = [response EXCEPT ![r] = Pulled(@)] /\ UNCHANGED source
     ELSE source' = [source EXCEPT ![r].i = @ + 1] /\ UNCHANGED response
  /\ UNCHANGED <<probe, store, clock, pc, req, conversation_id, query, first_chunk, status,
                 calls, faults, lastPersist>>

\* 375: the iterable is exhausted, the sentinel is yielded and the body ends
HandleDone(r) ==
  /\ pc[r] = "loop"
  /\ SourceEnds(r)
  /\ out' = [out EXCEPT ![r] = Append(@, DoneChunk)]
  /\ pc' = [pc EXCEPT ![r] = "done"]
  /\ UNCHANGED <<probe, store, clock, req, conversation_id, query, response, first_chunk,
                 source, message_id, status, calls, faults, lastPersist>>

\* 316 raising: the backend's generator fails during the for loop.  Under the
\* try of 75 (line 91) it is caught at 92 and the finished generator is handled
\* again (94); at 94 and 96 it leaves generator() and the body is cut short
HandleRaise(r) ==
  /\ pc[r] = "loop"
  /\ SourceRaises(r)
  /\ response' = [response EXCEPT ![r] = Raised(@)]
  /\ faults' = [faults EXCEPT ![r].backend = TRUE]
  /\ IF source[r].kind = "try"
     THEN /\ source' = [source EXCEPT ![r].kind = "except"]
          /\ message_id' = [message_id EXCEPT ![r] = << >>]
          /\ UNCHANGED pc
     ELSE /\ pc' = [pc EXCEPT ![r] = "aborted"]
          /\ UNCHANGED <<source, message_id>>
  /\ UNCHANGED <<probe, store, clock, req, conversation_id, query, first_chunk, out, status,
                 calls, lastPersist>>

\* the request is over and its frame is gone
Close(r) ==
  /\ Finished(r)
  /\ pc' = [pc EXCEPT ![r] = "closed"]
  /\ req' = [req EXCEPT ![r] = NoReq]
  /\ conversation_id' = [conversation_id EXCEPT ![r] = ""]
  /\ query' = [query EXCEPT ![r] = << >>]
  /\ response' = [response EXCEPT ![r] = NoStream]
  /\ first_chunk' = [first_chunk EXCEPT ![r] = NoEvent]
  /\ source' = [source EXCEPT ![r] = NoSource]
  /\ message_id' = [message_id EXCEPT ![r] = << >>]
  /\ out' = [out EXCEPT ![r] = << >>]
  /\ status' = [status EXCEPT ![r] = "pending"]
  /\ calls' = [calls EXCEPT ![r] = NoCalls]
  /\ faults' = [faults EXCEPT ![r] = NoFaults]
  /\ UNCHANGED <<probe, store, clock, lastPersist>>

\* ----------------------------------------------------------- specification
\* the streams the backend may answer with
BackendStreams(r) ==
  StreamsOf(Tags, MsgIds, BackendCids(r, conversation_id[r]), MaxEvents)

\* streams of plain message events only
MessageStreams(r) ==
  StreamsOf({"message"}, {"m1"}, BackendCids(r, conversation_id[r]), MaxEvents)

\* the bodies of one opening and one continuing conversation
TwoBodies ==
  {b \in Bodies :
     /\ b.user = <<"u1">>
     /\ b.messages \in
          { <<[role |-> "user", content |-> <<"x">>]>>,
            <<[role |-> "user", content |-> <<"x">>],
              [role |-> "assistant", content |-> <<"x">>]>> }}

Next ==
  \E r \in Reqs :
    \/ Receive(r)
    \/ RejectConfig(r)
    \/ ParseFail(r)
    \/ ParseBody(r, Bodies)
    \/ ResolveReject(r)
    \/ Resolve(r)
    \/ InvokeBlocking(r)
    \/ InvokeBlockingRaise(r)
    \/ PersistBlocking(r)
    \/ ReturnBlocking(r)
    \/ ReturnStream(r)
    \/ GenInvoke(r, MessageStreams(r))
    \/ GenInvokeRaise(r)
    \/ PeekEvent(r)
    \/ PeekNone(r)
    \/ PeekRaise(r)
    \/ PersistStream(r)
    \/ Drain(r)
    \/ DrainRaise(r)
    \/ HandleEvent(r)
    \/ HandleDone(r)
    \/ HandleRaise(r)
    \/ Close(r)

Spec == Init /\ [][Next]_vars

\* the same program with few bodies and every kind of backend event
NextStream ==
  \E r \in Reqs :
    \/ Receive(r)
    \/ RejectConfig(r)
    \/ ParseFail(r)
    \/ ParseBody(r, TwoBodies)
    \/ ResolveReject(r)
    \/ Resolve(r)
    \/ InvokeBlocking(r)
    \/ InvokeBlockingRaise(r)
    \/ PersistBlocking(r)
    \/ ReturnBlocking(r)
    \/ ReturnStream(r)
    \/ GenInvoke(r, BackendStreams(r))
    \/ GenInvokeRaise(r)
    \/ PeekEvent(r)
    \/ PeekNone(r)
    \/ PeekRaise(r)
    \/ PersistStream(r)
    \/ Drain(r)
    \/ DrainRaise(r)
    \/ HandleEvent(r)
    \/ HandleDone(r)
    \/ HandleRaise(r)
    \/ Close(r)

SpecStream == Init /\ [][NextStream]_vars

\* ------------------------------------------ requests served concurrently
\* a request arrives while another may be in progress: each request runs
\* _invoke on its own frame and shares only session.storage
ReceiveConcurrent(r) ==
  /\ pc[r] \in {"idle", "closed"}
  /\ clock <= MaxArrivals
  /\ \E a \in AppIds, m \in MemoryModes :
       req' = [req EXCEPT ![r] = [NoReq EXCEPT !.app_id = a, !.memory_mode = m]]
  /\ pc' = [pc EXCEPT ![r] = "entry"]
  /\ clock' = clock + 1
  /\ UNCHANGED <<probe, store, conversation_id, query, response, first_chunk, source,
                 message_id, out, status, calls, faults, lastPersist>>

NextRace ==
  \E r \in Reqs :
    \/ ReceiveConcurrent(r)
    \/ RejectConfig(r)
    \/ ParseFail(r)
    \/ ParseBody(r, TwoBodies)
    \/ ResolveReject(r)
    \/ Resolve(r)
    \/ InvokeBlocking(r)
    \/ InvokeBlockingRaise(r)
    \/ PersistBlocking(r)
    \/ ReturnBlocking(r)
    \/ ReturnStream(r)
    \/ GenInvoke(r, MessageStreams(r))
    \/ GenInvokeRaise(r)
    \/ PeekEvent(r)
    \/ PeekNone(r)
    \/ PeekRaise(r)
    \/ PersistStream(r)
    \/ Drain(r)
    \/ DrainRaise(r)
    \/ HandleEvent(r)
    \/ HandleDone(r)
    \/ HandleRaise(r)
    \/ Close(r)

SpecRace == Init /\ [][NextRace]_vars

\* ------------------------- requests whose strings hold the separator of 168
\* user u1||user:u2 opens the conversation [user: x]; user u2 sends a
\* conversation whose first user content is x||user:u1
ForgeBodies ==
  { [messages |-> <<[role |-> "user", content |-> <<"x">>]>>,
     stream |-> s, user |-> <<"u1", "||", "user:", "u2">>] : s \in BOOLEAN }
  \cup
  { [messages |-> <<[role |-> "user", content |-> <<"x", "||", "user:", "u1">>],
                    [role |-> "assistant", content |-> <<"x">>]>>,
     stream |-> s, user |-> <<"u2">>] : s \in BOOLEAN }

NextForge ==
  \E r \in Reqs :
    \/ Receive(r)
    \/ RejectConfig(r)
    \/ ParseFail(r)
    \/ ParseBody(r, ForgeBodies)
    \/ ResolveReject(r)
    \/ Resolve(r)
    \/ InvokeBlocking(r)
    \/ InvokeBlockingRaise(r)
    \/ PersistBlocking(r)
    \/ ReturnBlocking(r)
    \/ ReturnStream(r)
    \/ GenInvoke(r, MessageStreams(r))
    \/ GenInvokeRaise(r)
    \/ PeekEvent(r)
    \/ PeekNone(r)
    \/ PeekRaise(r)
    \/ PersistStream(r)
    \/ Drain(r)
    \/ DrainRaise(r)
    \/ HandleEvent(r)
    \/ HandleDone(r)
    \/ HandleRaise(r)
    \/ Close(r)

SpecForge == Init /\ [][NextForge]_vars

\* ------------------------------- _generate_conversation_key called directly
\* content and user are arbitrary strings of the JSON body (37, 39): they may
\* hold the separator and the prefixes that line 168 writes itself
KeyContents == Contents \cup {<<"||", "assistant:", "x">>, <<"x", "||", "user:", "u1">>}
KeyUsers == Users \cup {<<"u1", "||", "user:", "u2">>}
KeyMessage == [role : Roles, content : KeyContents]
KeyArgs == [messages : SeqsUpTo(KeyMessage, MaxKeyMsgs), user : KeyUsers]

InitKey ==
  /\ probe \in [a : KeyArgs, b : KeyArgs, key_a : {NoKey}, key_b : {NoKey}]
  /\ store = EmptyStore
  /\ clock = 1
  /\ pc = [r \in Reqs |-> "idle"]
  /\ req = [r \in Reqs |-> NoReq]
  /\ conversation_id = [r \in Reqs |-> ""]
  /\ query = [r \in Reqs |-> << >>]
  /\ response = [r \in Reqs |-> NoStream]
  /\ first_chunk = [r \in Reqs |-> NoEvent]
  /\ source = [r \in Reqs |-> NoSource]
  /\ message_id = [r \in Reqs |-> << >>]
  /\ out = [r \in Reqs |-> << >>]
  /\ status = [r \in Reqs |-> "pending"]
  /\ calls = [r \in Reqs |-> NoCalls]
  /\ faults = [r \in Reqs |-> NoFaults]
  /\ lastPersist = NoPersist

CallKeyA ==
  /\ probe.key_a = NoKey
  /\ probe' = [probe EXCEPT
                  !.key_a = generate_conversation_key(probe.a.messages, probe.a.user)]
  /\ UNCHANGED <<store, clock, pc, req, conversation_id, query, response, first_chunk,
                 source, message_id, out, status, calls, faults, lastPersist>>

CallKeyB ==
  /\ probe.key_b = NoKey
  /\ probe' = [probe EXCEPT
                  !.key_b = generate_conversation_key(probe.b.messages, probe.b.user)]
  /\ UNCHANGED <<store, clock, pc, req, conversation_id, query, response, first_chunk,
                 source, message_id, out, status, calls, faults, lastPersist>>

NextKey == CallKeyA \/ CallKeyB

SpecKey == InitKey /\ [][NextKey]_vars

\* ================================================================== claims
\* _get_memory has returned for request r
Resolved(r) ==
  \/ pc[r] \in {"respond_stream", "invoke_blocking", "persist_blocking",
                 "return_blocking", "gen_invoke", "peek", "persist_stream", "drain",
                 "loop"}
  \/ Finished(r) /\ faults[r].rejected = ""

\* request r continues the conversation whose handle was persisted last, by an
\* earlier request: same user, same system content, same first user content,
\* an assistant message, and r's own store get did not fail
ContinuesLastPersist(r) ==
  /\ lastPersist # NoPersist
  /\ calls[r].set = 0
  /\ ~faults[r].get
  /\ req[r].user = lastPersist.user
  /\ FirstContent(req[r].messages, "system") = lastPersist.system
  /\ FirstContent(req[r].messages, "user") = lastPersist.first_user
  /\ has_assistant_message(req[r].messages)

\* C1: round trip across requests.  Once a new-conversation request has
\* persisted handle h for (m, u), a later request of u with the same system
\* content and first user content and an assistant message resolves to h and
\* invokes the backend with conversation id h.
C1_RoundTrip ==
  \A r \in Reqs :
    (Resolved(r) /\ ContinuesLastPersist(r)) =>
      /\ conversation_id[r] = lastPersist.handle
      /\ calls[r].invoke > 0 => calls[r].invoked_with = lastPersist.handle

\* the same round trip for conversations whose key is built from a system or
\* first-user feature (147-158), not from the fallback of 161-165
C1_RoundTripPrimaryKey ==
  \A r \in Reqs :
    (/\ Resolved(r) /\ ContinuesLastPersist(r)
     /\ Len(SystemFeature(req[r].messages) \o FirstUserFeature(req[r].messages)) >= 1) =>
      /\ conversation_id[r] = lastPersist.handle
      /\ calls[r].invoke > 0 => calls[r].invoked_with = lastPersist.handle

\* request r has been through _get_memory, which returned or raised
PastMemory(r) == Resolved(r) \/ (Finished(r) /\ faults[r].rejected = "memory")

\* C2: new-conversation rule.  For a message list with a user message and no
\* assistant message, the session handle that comes out of resolution is empty
\* whatever the store holds, and the store is not read.
C2_NewConversationRule ==
  \A r \in Reqs :
    (/\ PastMemory(r)
     /\ HasRole(req[r].messages, "user")
     /\ ~HasRole(req[r].messages, "assistant")) =>
      /\ conversation_id[r] = ""
      /\ calls[r].get = 0
      /\ calls[r].invoke > 0 => calls[r].invoked_with = ""

\* a list without assistant message has resolved while the store holds a
\* well-formed record under that very list's fingerprint
C2_Witness ==
  \E r \in Reqs :
    /\ Resolved(r)
    /\ HasRole(req[r].messages, "user")
    /\ ~HasRole(req[r].messages, "assistant")
    /\ generate_conversation_key(req[r].messages, req[r].user) \in DOMAIN store
    /\ Parses(store[generate_conversation_key(req[r].messages, req[r].user)])
    /\ conversation_id[r] = ""

\* the response a client can use: 200 and the whole body
ValidResponse(r) ==
  /\ pc[r] = "done"
  /\ status[r] = "200"
  /\ Len(out[r]) >= 1
  /\ IF req[r].stream
     THEN out[r][Len(out[r])] = DoneChunk
     ELSE out[r] = <<BlockingBody([id |-> response[r].events[1].message_id])>>

\* C3: store-fault tolerance.  A request whose store get failed resolves to
\* ("", query) without raising, and a request that met a store fault (get or
\* set) and no backend fault ends with a valid 200 response, streaming or not.
C3_StoreFaultTolerance ==
  \A r \in Reqs :
    /\ faults[r].get =>
          /\ faults[r].rejected = ""
          /\ conversation_id[r] = ""
          /\ query[r] = LastUserContent(req[r].messages)
          /\ calls[r].invoke > 0 => calls[r].invoked_with = ""
    /\ (Finished(r) /\ (faults[r].get \/ faults[r].set) /\ ~faults[r].backend) =>
          ValidResponse(r)

\* a continuing conversation whose get and set both failed has streamed its
\* whole answer
C3_Witness ==
  \E r \in Reqs :
    /\ pc[r] = "done"
    /\ req[r].stream
    /\ has_assistant_message(req[r].messages)
    /\ faults[r].get /\ faults[r].set /\ ~faults[r].backend
    /\ status[r] = "200"
    /\ Len(out[r]) >= 2

\* C5: the query is the content of the last user message, and resolution fails
\* with "No user message found" (400) only when no message has role user; a
\* list without user message, such as [system], gets a 400.
C5_QueryIsLastUserMessage ==
  \A r \in Reqs :
    /\ Resolved(r) => query[r] = LastUserContent(req[r].messages)
    /\ (PastMemory(r) /\ ~HasRole(req[r].messages, "user")) =>
          (pc[r] = "done" /\ status[r] = "400")
    /\ (faults[r].rejected = "memory" /\ req[r].memory_mode = "last_user_message") =>
          ~HasRole(req[r].messages, "user")

\* C6: a request rejected at resolution ends in a 400 and has touched neither
\* the backend nor the store; requests with an unsupported memory mode or
\* without a usable user message are all rejected there.
C6_RejectedHasNoEffects ==
  \A r \in Reqs :
    /\ faults[r].rejected = "memory" =>
          /\ pc[r] = "done"
          /\ status[r] = "400"
          /\ calls[r].get = 0 /\ calls[r].set = 0 /\ calls[r].invoke = 0
          /\ out[r] = << >>
    /\ (PastMemory(r) /\ (req[r].memory_mode # "last_user_message"
                            \/ ~HasRole(req[r].messages, "user"))) =>
          faults[r].rejected = "memory"

\* a continuing conversation under an unsupported memory mode was rejected
\* while the store holds something under its key
C6_Witness ==
  \E r \in Reqs :
    /\ faults[r].rejected = "memory"
    /\ status[r] = "400"
    /\ req[r].memory_mode # "last_user_message"
    /\ has_assistant_message(req[r].messages)
    /\ generate_conversation_key(req[r].messages, req[r].user) \in DOMAIN store

\* C7: a request handled without a valid application identity ends in a 400
\* response before the body is parsed, the store touched or the backend invoked.
C7_ConfigErrorIs400 ==
  \A r \in Reqs :
    (pc[r] = "done" /\ req[r].app_id # "app") =>
      /\ status[r] = "400"
      /\ req[r].messages = << >>
      /\ calls[r] = NoCalls

\* C8: a backend invocation that raises ends in status 500, never 200 or 400,
\* and the backend is not invoked again.
C8_BackendFaultIs500 ==
  \A r \in Reqs :
    (Finished(r) /\ faults[r].backend) =>
      /\ status[r] = "500"
      /\ calls[r].invoke = 1

\* the events the backend has yielded to request r
Yielded(r) == SubSeq(response[r].events, 1, response[r].pos)

\* C4: peek-then-resume.  In streaming mode for a new conversation the chunks
\* sent are exactly the translation of the events the backend yielded, each
\* once and in order, on every path of generator(), the exception path included.
C4_PeekThenResume ==
  \A r \in Reqs :
    (/\ pc[r] = "done" /\ req[r].stream /\ calls[r].invoke = 1
     /\ conversation_id[r] = "") =>
      out[r] = handle_chat_stream_message(Yielded(r))

\* the same on the paths where the backend's generator does not raise
C4_PeekThenResumeNoFault ==
  \A r \in Reqs :
    (/\ pc[r] = "done" /\ req[r].stream /\ calls[r].invoke = 1
     /\ conversation_id[r] = "" /\ ~faults[r].backend) =>
      /\ Yielded(r) = response[r].events
      /\ out[r] = handle_chat_stream_message(Yielded(r))

\* the tags that have a chunk
ChunkTags == {"message", "agent_message", "message_end", "message_file"}
HasChunk(e) == e.event \in ChunkTags

\* chunk c is what the claim expects for event e
ChunkFor(c, e) ==
  /\ c.object = "chat.completion.chunk"
  /\ e.event \in {"message", "agent_message"} =>
        /\ c.finish_reason = "null"
        /\ c.delta = <<"assistant", "answer">>
        /\ c.id = <<"chatcmpl-", e.message_id>>
  /\ e.event = "message_end" =>
        /\ c.finish_reason = "stop"
        /\ c.delta = << >>
        /\ c.usage = "usage"
        /\ c.id = <<"chatcmpl-", e.message_id>>
  /\ e.event = "message_file" => c.delta = <<"assistant", "[id](url)">>

\* what _handle_chat_stream_message has taken from its iterable so far
Consumed(r) ==
  IF source[r].kind = "list" THEN SubSeq(source[r].items, 1, source[r].i)
  ELSE Yielded(r)

\* C9: stream translation.  For a backend stream that ends normally, the output
\* is one chunk per event tagged message, agent_message, message_end or
\* message_file, in input order, none for other tags, then exactly one [DONE]
\* chunk, last; message chunks have finish_reason null, message_end chunks an
\* empty delta and finish_reason "stop".
C9_StreamTranslation ==
  \A r \in Reqs :
    (/\ req[r].stream /\ calls[r].invoke = 1 /\ pc[r] \in {"loop", "done"}
     /\ ~faults[r].backend) =>
      LET expected == SelectSeq(Consumed(r), HasChunk)
          body == IF pc[r] = "done" THEN SubSeq(out[r], 1, Len(out[r]) - 1) ELSE out[r]
      IN  /\ Len(body) = Len(expected)
          /\ \A k \in 1..Len(body) : ChunkFor(body[k], expected[k])
          /\ pc[r] = "done" =>
                /\ Consumed(r) = response[r].events
                /\ Len(out[r]) >= 1
                /\ out[r][Len(out[r])] = DoneChunk

\* the stream [message, message_end] has been answered by two chunks and [DONE]
C9_Witness ==
  \E r \in Reqs :
    /\ pc[r] = "done" /\ req[r].stream /\ ~faults[r].backend
    /\ Len(response[r].events) = 2
    /\ response[r].events[1].event = "message"
    /\ response[r].events[2].event = "message_end"
    /\ Len(out[r]) = 3
    /\ out[r][1].finish_reason = "null"
    /\ out[r][2].finish_reason = "stop"

\* both calls of _generate_conversation_key have returned
BothKeys == probe.key_a # NoKey /\ probe.key_b # NoKey

\* the two calls agree on (system content if present, first user content if
\* present, user)
SameTriple ==
  /\ FirstContent(probe.a.messages, "system") = FirstContent(probe.b.messages, "system")
  /\ FirstContent(probe.a.messages, "user") = FirstContent(probe.b.messages, "user")
  /\ probe.a.user = probe.b.user

\* a system or first-user feature is produced (147, 157): the content is there
\* and not empty
HasPrimaryFeature(messages) ==
  Len(FirstContent(messages, "system")) > 1 \/ Len(FirstContent(messages, "user")) > 1

ChangedFirst(a, b, role) ==
  /\ HasRole(a, role)
  /\ Len(a) = Len(b)
  /\ \A i \in 1..Len(a) :
        /\ a[i].role = b[i].role
        /\ (i # FirstIndex(a, role)) => a[i].content = b[i].content
  /\ a[FirstIndex(a, role)].content # b[FirstIndex(a, role)].content

\* C11: fingerprint sensitivity.  Changing the first user message content, the
\* system message content or the user (the other two held equal) changes the
\* key.
C11_Sensitivity ==
  BothKeys =>
    /\ (probe.a.user = probe.b.user
        /\ ChangedFirst(probe.a.messages, probe.b.messages, "user")) =>
          probe.key_a # probe.key_b
    /\ (probe.a.user = probe.b.user
        /\ ChangedFirst(probe.a.messages, probe.b.messages, "system")) =>
          probe.key_a # probe.key_b
    /\ (probe.a.user # probe.b.user /\ probe.a.messages = probe.b.messages) =>
          probe.key_a # probe.key_b

\* the same where the content changes from one non-empty value to another
C11_SensitivityNonEmpty ==
  \A role \in {"user", "system"} :
    (/\ BothKeys
     /\ probe.a.user = probe.b.user
     /\ ChangedFirst(probe.a.messages, probe.b.messages, role)
     /\ Truthy(probe.a.messages[FirstIndex(probe.a.messages, role)].content)
     /\ Truthy(probe.b.messages[FirstIndex(probe.a.messages, role)].content)) =>
      probe.key_a # probe.key_b

\* the messages of a list that are not assistant turns, in order
IsNotAssistant(m) == m.role # "assistant"
WithoutAssistant(messages) == SelectSeq(messages, IsNotAssistant)

\* C12: fingerprint independence from assistant turns.  Two lists of one user
\* that differ only in their assistant messages have the same key, on every
\* path of the algorithm, the fallback included.
C12_AssistantIndependence ==
  (/\ BothKeys
   /\ probe.a.user = probe.b.user
   /\ WithoutAssistant(probe.a.messages) = WithoutAssistant(probe.b.messages)) =>
    probe.key_a = probe.key_b

\* the same on the paths where a system or first-user feature is produced
C12_AssistantIndependencePrimary ==
  (/\ BothKeys
   /\ probe.a.user = probe.b.user
   /\ WithoutAssistant(probe.a.messages) = WithoutAssistant(probe.b.messages)
   /\ HasPrimaryFeature(probe.a.messages)) =>
    probe.key_a = probe.key_b

\* request r's generator() is running _handle_chat_stream_message or about to
Streaming(r) ==
  req[r].stream /\ pc[r] \in {"peek", "persist_stream", "drain", "loop"}

\* the chunk-bearing events among the first n events of r's backend stream
ChunkBearing(r, n) == SelectSeq(SubSeq(response[r].events, 1, n), HasChunk)

\* C13: streaming is not buffered.  When event i+1 has been pulled from the
\* backend, the chunk of every earlier event has already been emitted; so the
\* first chunk is out before the backend stream is exhausted.
C13_NotBuffered ==
  \A r \in Reqs :
    (Streaming(r) /\ response[r].pos >= 1) =>
      Len(ChunkBearing(r, response[r].pos - 1)) <= Len(out[r])

\* the same for a continuing conversation (96), which iterates the live
\* generator
C13_NotBufferedContinuing ==
  \A r \in Reqs :
    (Streaming(r) /\ response[r].pos >= 1 /\ conversation_id[r] # "") =>
      Len(ChunkBearing(r, response[r].pos - 1)) <= Len(out[r])

\* the key and record _backtracking_conversation_id writes for request r
OwnKey(r) == generate_conversation_key(req[r].messages, req[r].user)

\* request r performs a store set in this step
Sets(r) == calls'[r].set = calls[r].set + 1

\* C14: persistence ordering within one request.  The store set of request r
\* happens after r's backend invoke has returned (blocking) or yielded its
\* first event (streaming), before r emits its first chunk or returns its
\* response, and writes only the key of r's own messages and user.
C14_PersistOrdering ==
  [][\A r \in Reqs :
       Sets(r) =>
         /\ calls[r].invoke = 1
         /\ Len(response[r].events) >= 1
         /\ req[r].stream => (response[r].pos >= 1 /\ first_chunk[r] = response[r].events[1])
         /\ out[r] = << >>
         /\ ~Finished(r) /\ ~Finished(r)'
         /\ ~req[r].stream => status[r] = "pending"
         /\ \A k \in DOMAIN store' :
              k # OwnKey(r) => (k \in DOMAIN store /\ store'[k] = store[k])
         /\ ~faults'[r].set =>
              /\ OwnKey(r) \in DOMAIN store'
              /\ Parses(store'[OwnKey(r)])
              /\ store'[OwnKey(r)].conversation_id = response[r].events[1].conversation_id
              /\ store'[OwnKey(r)].user_id = req[r].user]_vars

\* a streaming request has stored the handle of its first event and has not
\* emitted anything yet
C14_Witness ==
  \E r \in Reqs :
    /\ req[r].stream /\ pc[r] = "drain"
    /\ calls[r].set = 1 /\ ~faults[r].set
    /\ OwnKey(r) \in DOMAIN store
    /\ store[OwnKey(r)].conversation_id = NewHandle(r)
    /\ out[r] = << >>

\* C15: no persistence for a continuing conversation.  A request that resolved
\* a non-empty handle performs no store set, in streaming and in blocking mode
\* and whatever conversation id the backend returns; the store only changes in
\* a step that is some request's store set.
C15_NoPersistWhenContinuing ==
  [][/\ \A r \in Reqs :
          conversation_id[r] # "" => (calls[r].set = 0 /\ ~Sets(r))
     /\ store' # store => \E r \in Reqs : Sets(r) /\ conversation_id[r] = ""]_vars

\* a continuing streaming request has ended; the backend answered with another
\* conversation id than the one resolved, and the stored record is the old one
C15_Witness ==
  \E r \in Reqs :
    /\ pc[r] = "done" /\ req[r].stream
    /\ conversation_id[r] = StoredHandle
    /\ calls[r].invoke = 1 /\ calls[r].set = 0
    /\ Len(response[r].events) >= 1
    /\ response[r].events[1].conversation_id = NewHandle(r)
    /\ store[OwnKey(r)].conversation_id = StoredHandle

\* request r started a conversation, met no fault and stored the backend's handle
Persisted(r) ==
  /\ Finished(r)
  /\ faults[r] = NoFaults
  /\ conversation_id[r] = ""
  /\ calls[r].set = 1

\* request r resolves in this step
Resolves(r) == pc[r] = "parsed" /\ pc'[r] \in {"respond_stream", "invoke_blocking"}

\* C16: last-write-wins under concurrency.  Two concurrent new-conversation
\* requests with one fingerprint and different backend handles both end with a
\* valid response; the store then holds under that fingerprint one well-formed
\* record, with the handle written last; a later continuing request with that
\* fingerprint resolves to it.
C16_LastWriteWins ==
  /\ [](\A r \in Reqs : (Finished(r) /\ faults[r] = NoFaults) => ValidResponse(r))
  /\ []((Persisted(1) /\ Persisted(2) /\ OwnKey(1) = OwnKey(2)) =>
          /\ Parses(store[OwnKey(1)])
          /\ store[OwnKey(1)].conversation_id \in {NewHandle(1), NewHandle(2)}
          /\ store[OwnKey(1)].conversation_id = lastPersist.handle)
  /\ [][\A r \in Reqs :
          (/\ Resolves(r)
           /\ has_assistant_message(req[r].messages)
           /\ lastPersist # NoPersist
           /\ OwnKey(r) = lastPersist.key
           /\ ~faults'[r].get) =>
            conversation_id'[r] = lastPersist.handle]_vars

\* two overlapping new-conversation requests have both stored their handle
\* under one key and both have their answer
C16_Witness ==
  /\ Persisted(1) /\ Persisted(2)
  /\ OwnKey(1) = OwnKey(2)
  /\ pc[1] = "done" /\ pc[2] = "done"
  /\ req[1].stream /\ ~req[2].stream
  /\ store[OwnKey(1)].conversation_id = NewHandle(1)

\* what kind of event a chunk of the output was produced for
IsMessageChunk(c) == c.delta = <<"assistant", "answer">>
IsFileChunk(c) == c.delta = <<"assistant", "[id](url)">>

\* C17: file-chunk identifier.  Every chunk produced for a message_file event
\* carries the id of the most recently emitted message / agent_message chunk
\* of the same stream.
C17_FileChunkId ==
  \A r \in Reqs :
    \A k \in 1..Len(out[r]) :
      IsFileChunk(out[r][k]) =>
        \A j \in 1..(k - 1) :
          (/\ IsMessageChunk(out[r][j])
           /\ \A i \in (j + 1)..(k - 1) : ~IsMessageChunk(out[r][i])) =>
            out[r][k].id = out[r][j].id

\* request r leaves _get_memory in this step, by return or by exception
LeavesMemory(r) == pc[r] = "parsed" /\ pc'[r] # "parsed"

\* requests 1 and 2 carry the same arguments of _get_memory and both calls are
\* over, with no persistence so far
SameResolveCalls ==
  /\ lastPersist = NoPersist
  /\ PastMemory(1) /\ PastMemory(2)
  /\ req[1].memory_mode = req[2].memory_mode
  /\ req[1].messages = req[2].messages
  /\ req[1].user = req[2].user

\* what a call of _get_memory gave: the exception or the pair returned
ResolveOutcome(r) ==
  [raised |-> faults[r].rejected = "memory",
   conversation_id |-> conversation_id[r],
   query |-> query[r]]

\* _get_memory performs at most one store get and no store set, and leaves
\* the store as it is
ResolveReadOnly ==
  [][\A r \in Reqs :
       LeavesMemory(r) =>
         /\ store' = store
         /\ calls'[r].set = 0
         /\ calls'[r].get <= 1]_vars

\* C18 as stated: resolve is read-only, and two calls with the same messages
\* and user before any persistence return the same (sessionHandle, query).
C18_ResolveIdempotent ==
  /\ ResolveReadOnly
  /\ [](SameResolveCalls => ResolveOutcome(1) = ResolveOutcome(2))

\* C18 as amended: resolve is read-only, and two such calls return the same
\* pair when the store get fails in both or in neither of them.
C18_ResolveIdempotentSameFault ==
  /\ ResolveReadOnly
  /\ []((SameResolveCalls /\ faults[1].get = faults[2].get) =>
          ResolveOutcome(1) = ResolveOutcome(2))

\* two calls for a continuing conversation whose stored record is corrupt have
\* both returned the empty handle
C18_Witness ==
  /\ SameResolveCalls
  /\ Resolved(1) /\ Resolved(2)
  /\ has_assistant_message(req[1].messages)
  /\ ~faults[1].get /\ ~faults[2].get
  /\ OwnKey(1) \in DOMAIN store /\ ~Parses(store[OwnKey(1)])
  /\ calls[1].get = 1 /\ calls[2].get = 1
  /\ ResolveOutcome(1) = ResolveOutcome(2)

\* C19: no retries.  In every execution of one request the backend invoke, the
\* store get and the store set are each called at most once, on the fault
\* paths too.
C19_NoRetries ==
  \A r \in Reqs :
    /\ calls[r].invoke <= 1
    /\ calls[r].get <= 1
    /\ calls[r].set <= 1

\* a streaming request whose store get, store set and backend stream all
\* failed has ended after one call of each
C19_Witness ==
  \E r \in Reqs :
    /\ Finished(r) /\ req[r].stream
    /\ faults[r].get /\ faults[r].set /\ faults[r].backend
    /\ calls[r].invoke = 1 /\ calls[r].get = 1 /\ calls[r].set = 1

\* C20: cross-user isolation.  A request never resolves a session handle that
\* a request of another user persisted: the record resolve returns carries the
\* requesting user's id, and a resolved handle that is the one persisted last
\* was persisted by the same user.
C20_CrossUserIsolation ==
  \A r \in Reqs :
    (Resolved(r) /\ conversation_id[r] # "") =>
      /\ OwnKey(r) \in DOMAIN store
      /\ store[OwnKey(r)].user_id = req[r].user
      /\ (lastPersist # NoPersist /\ conversation_id[r] = lastPersist.handle) =>
            lastPersist.user = req[r].user

\* the same for the key alone: two calls of _generate_conversation_key with
\* different users return different keys
C20_KeysDifferByUser ==
  (BothKeys /\ probe.a.user # probe.b.user) => probe.key_a # probe.key_b

====
